---- MODULE Spec2Model ----
(***************************************************************************)
(* The Twilio gateway (app/gateways/twilio_gateway.py), the file logger    *)
(* (app/gateways/file_logger.py) and the process-wide configuration        *)
(* (app/gateways/config.py) as one state machine.  Every gateway method is *)
(* one action: the provider's answer is an input of the action, the log    *)
(* write the method performs is part of it.                                *)
(*                                                                         *)
(* Python values: None is the empty tuple and a present Optional value x   *)
(* is <<x>>; an f-string is the tuple of its pieces; a message body is the *)
(* tuple of its characters; an exception leaving a method is its class     *)
(* name in the variable exc ("" when the method returned).                 *)
(***************************************************************************)
EXTENDS Integers, Sequences, FiniteSets, TLC

\* ---------------------------------------------------------------- bounds
MaxSteps == 2          \* steps per behaviour (each call takes one tick)
TicksPerDay == 3       \* clock ticks per calendar day
MaxLimit == 2          \* largest limit a caller passes to a listing method

\* ------------------------------------------------------ program constants
BodyLimit == 100       \* log_message: bodies longer than this are cut
BodyKeep == 97         \* log_message: characters kept in front of '...'

Categories == {"call", "message", "purchase", "error"}
\* The process starts at midnight or two ticks before it
StartTimes == {0, TicksPerDay - 2}
Days == 0..((TicksPerDay + MaxSteps) \div TicksPerDay)
MainSid == "AC_main"
SubSid == "AC_sub"
ProviderErrors == {"not available"}

\* The provider's catalogue of numbers, in the order it lists them
Phone(i) == <<"+1415555010", i>>
Catalogue == [i \in 1..MaxLimit |-> Phone(i)]
Phones == {Catalogue[i] : i \in 1..MaxLimit}

None == <<>>
Some(x) == <<x>>
NoExc == ""

\* Python truthiness of an Optional[str]: None and "" are falsy.
Truthy(o) == o # None /\ o[1] # ""

\* The same for a text made of pieces, whose empty value is the empty tuple
TruthyText(o) == o # None /\ o[1] # <<>>

\* The processes that write the log directory: this one and a second copy
\* of the program started on the same directory
Writers == {"cli_1", "cli_2"}

VARIABLES
    config_account_sid,     \* config.twilio.account_sid
    config_auth_token,      \* config.twilio.auth_token
    config_subaccount_sid,  \* config.twilio.subaccount_sid
    enabled,                \* file_logger.enabled
    files,                  \* the JSON day files, by <<category, day>>
    textlog,                \* app.log, the text mirror
    clock,                  \* datetime.datetime.now()
    steps,                  \* the steps taken so far
    active_sid,             \* twilio_gateway.active_sid
    owned,                  \* the provider's incoming numbers: sid -> number
    released,               \* the identifiers of the numbers the provider released
    nextSid,                \* the next identifier the provider assigns
    call,                   \* the invocation just made, with the state it started from
    ret,                    \* what it returned
    exc,                    \* the exception that left it, NoExc if it returned
    writers                 \* where each process that logs stands in _write_json_log

vars == <<config_account_sid, config_auth_token, config_subaccount_sid, enabled, files, textlog, clock, steps,
          active_sid, owned, released, nextSid, call, ret, exc, writers>>

\* ------------------------------------------------------------- config.py
\* TwilioConfig.active_sid
\* Mutant: "if self.subaccount_sid is not None"
config_active_sid_not_none(sub) == IF sub # None THEN sub[1] ELSE config_account_sid

config_active_sid(sub) == IF Truthy(sub) THEN sub[1] ELSE config_account_sid

\* ---------------------------------------------------------- file_logger.py
\* A day file: absent, a JSON array of records, text json.load rejects, or
\* well-formed JSON that is not an array; writable is whether open(.., 'w')
\* succeeds.
MissingFile == [kind |-> "missing", logs |-> <<>>, writable |-> TRUE]
ArrayFile(logs) == [kind |-> "array", logs |-> logs, writable |-> TRUE]

\* datetime.now().isoformat(): the date and the time of day
isoformat(t) == [date |-> t \div TicksPerDay, time |-> t % TicksPerDay]

\* strftime('%Y-%m-%d')
strftime(t) == t \div TicksPerDay

_get_log_file_path(log_type, t) == <<log_type, strftime(t)>>

\* json.load(f): the list read, or how it went wrong
json_load(f) ==
    CASE f.kind = "array" -> [status |-> "list", logs |-> f.logs]
      [] f.kind = "garbage" -> [status |-> "JSONDecodeError", logs |-> <<>>]
      [] OTHER -> [status |-> "not_a_list", logs |-> <<>>]

\* Mutant: the timestamp is taken before the provider round trip
Stamp_before_call(data, t) == data @@ [timestamp |-> isoformat(t - 1)]

\* data['timestamp'] = datetime.datetime.now().isoformat()
Stamp(data, t) == data @@ [timestamp |-> isoformat(t)]

\* Mutant: the file is rewritten without "logs.append(data)"
_write_json_log_forgets(en, fs, log_type, data, t) ==
    IF ~en THEN [exc |-> NoExc, files |-> fs]
    ELSE [exc |-> NoExc,
          files |-> [fs EXCEPT ![_get_log_file_path(log_type, t)] =
                        ArrayFile(json_load(@).logs)]]

\* Mutant: "if not self.enabled: return" is missing
_write_json_log_always(en, fs, log_type, data, t) ==
    [exc |-> NoExc,
     files |-> [fs EXCEPT ![_get_log_file_path(log_type, t)] =
                   ArrayFile(Append(json_load(@).logs, Stamp(data, t)))]]

\* Mutant: the file is rewritten from an empty list ("logs = []" always)
_write_json_log_overwrites(en, fs, log_type, data, t) ==
    IF ~en THEN [exc |-> NoExc, files |-> fs]
    ELSE [exc |-> NoExc,
          files |-> [fs EXCEPT ![_get_log_file_path(log_type, t)] =
                        ArrayFile(<<Stamp(data, t)>>)]]

\* _write_json_log: the files after the call and the exception it raised.
\* The two readings of the clock (timestamp, file name) fall in one tick.
_write_json_log(en, fs, log_type, data, t) ==
    IF ~en THEN [exc |-> NoExc, files |-> fs]
    ELSE
        LET entry == Stamp(data, t)
            log_file == _get_log_file_path(log_type, t)
            f == fs[log_file]
            loaded == IF f.kind = "missing"
                        THEN [status |-> "list", logs |-> <<>>]
                        ELSE json_load(f)
        IN  IF loaded.status = "not_a_list"
              THEN [exc |-> "AttributeError", files |-> fs]
            ELSE IF ~f.writable
              THEN [exc |-> "PermissionError", files |-> fs]
            ELSE [exc |-> NoExc,
                  files |-> [fs EXCEPT ![log_file] =
                                ArrayFile(Append(loaded.logs, entry))]]

\* One line of app.log
Line(level, t, msg) == [asctime |-> t, name |-> "twilio_manager",
                        levelname |-> level, message |-> msg]

\* "if error: logger.error(f'{log_msg} - Error: {error}') else: logger.info(log_msg)"
Mirror(text, t, log_msg, error) ==
    IF TruthyText(error)
      THEN Append(text, Line("ERROR", t, log_msg \o <<" - Error: ", error[1]>>))
      ELSE Append(text, Line("INFO", t, log_msg))

\* A log_* method: the JSON write, then the text line (skipped when the
\* write raised or the logger is disabled)
Logged(en, fs, text, log_type, data, t, line) ==
    LET w == _write_json_log(en, fs, log_type, data, t)
    IN  [exc |-> w.exc, files |-> w.files,
         textlog |-> IF en /\ w.exc = NoExc THEN line ELSE text]

log_call(en, fs, text, t, from_number, to_number, status, sid, duration, error) ==
    Logged(en, fs, text, "call",
           [from |-> from_number, to |-> to_number, status |-> status,
            sid |-> sid, duration |-> duration, error |-> error],
           t,
           Mirror(text, t, <<"Call from ", from_number, " to ", to_number, ": ", status>>,
                  error))

\* Mutant: "len(body) >= 100"
Truncate_from_limit(body) ==
    IF TruthyText(body) /\ Len(body[1]) >= BodyLimit
      THEN Some(SubSeq(body[1], 1, BodyKeep) \o <<".", ".", ".">>)
      ELSE body

\* "if body and len(body) > 100: body = body[:97] + '...'"
Truncate(body) ==
    IF TruthyText(body) /\ Len(body[1]) > BodyLimit
      THEN Some(SubSeq(body[1], 1, BodyKeep) \o <<".", ".", ".">>)
      ELSE body

log_message(en, fs, text, t, from_number, to_number, status, body, sid, error) ==
    Logged(en, fs, text, "message",
           [from |-> from_number, to |-> to_number, status |-> status,
            body |-> Truncate(body), sid |-> sid, error |-> error],
           t,
           Mirror(text, t, <<"Message from ", from_number, " to ", to_number, ": ", status>>,
                  error))

\* Mutant: the record of a purchase loses its error text
log_purchase_drops_error(en, fs, text, t, phone_number, status, price, sid, error) ==
    Logged(en, fs, text, "purchase",
           [phone_number |-> phone_number, status |-> status, price |-> price,
            sid |-> sid, error |-> None],
           t,
           Mirror(text, t, <<"Purchase of ", phone_number, ": ", status>>, error))

log_purchase(en, fs, text, t, phone_number, status, price, sid, error) ==
    Logged(en, fs, text, "purchase",
           [phone_number |-> phone_number, status |-> status, price |-> price,
            sid |-> sid, error |-> error],
           t,
           Mirror(text, t,
                  <<"Purchase of ", phone_number, ": ", status>>
                    \o (IF price # None THEN <<" ($", price[1], ")">> ELSE <<>>),
                  error))

log_error(en, fs, text, t, error_type, message) ==
    Logged(en, fs, text, "error",
           [type |-> error_type, message |-> message, details |-> <<>>],
           t,
           Append(text, Line("ERROR", t, <<error_type, ": ">> \o message)))

\* ------------------------------------------------------ twilio_gateway.py
\* The state a method runs in, and what it leaves behind.  A provider
\* round trip takes one tick, so a log write happens at clock + 1.
Here == [enabled |-> enabled, files |-> files, textlog |-> textlog,
         clock |-> clock, active_sid |-> active_sid, owned |-> owned,
         released |-> released, nextSid |-> nextSid]

Now(S) == S.clock + 1
NoValue == [raised |-> TRUE]

\* The method returns retv without logging
Plain(S, retv, own, nx, reqs) ==
    [ret |-> retv, exc |-> NoExc, files |-> S.files, textlog |-> S.textlog,
     owned |-> own, nextSid |-> nx, reqs |-> reqs]

\* The method logs (lg is what the log_* call did) and then returns retv;
\* an exception of the logger is no TwilioRestException and leaves the method
Finish(lg, retv, own, nx, reqs) ==
    [ret |-> IF lg.exc = NoExc THEN retv ELSE NoValue, exc |-> lg.exc,
     files |-> lg.files, textlog |-> lg.textlog,
     owned |-> own, nextSid |-> nx, reqs |-> reqs]

Req(what, kwargs) == [request |-> what, kwargs |-> kwargs]
Rejected(e) == [status |-> "rejected", error |-> e]
Rejections == {Rejected(e) : e \in ProviderErrors}

LogError(S, error_type, message) ==
    log_error(S.enabled, S.files, S.textlog, Now(S), error_type, message)

\* dict.get(key, default)
Get(d, key, default) == IF key \in DOMAIN d THEN d[key] ELSE default

\* What the provider knows of an available number
Available(p) == [phone_number |-> p, friendly_name |-> "(415) 555-01xx",
                 locality |-> "San Francisco", region |-> "CA",
                 postal_code |-> "94105", iso_country |-> "US",
                 capabilities |-> [voice |-> TRUE, sms |-> TRUE]]

SearchResult(number) ==
    [phone_number |-> number.phone_number,
     friendly_name |-> number.friendly_name,
     locality |-> number.locality, region |-> number.region,
     postal_code |-> number.postal_code, iso_country |-> number.iso_country,
     capabilities |-> [voice |-> Get(number.capabilities, "voice", FALSE),
                       sms |-> Get(number.capabilities, "sms", FALSE),
                       mms |-> Get(number.capabilities, "mms", FALSE)]]

\* Mutant: "len(numbers) > limit"
HasMore_strict(numbers, limit) == Len(numbers) > limit

\* "has_more = len(numbers) >= limit"
HasMore(numbers, limit) == Len(numbers) >= limit

SearchParams(a) ==
    (IF Truthy(a.area_code) THEN [AreaCode |-> a.area_code[1]] ELSE <<>>)
    @@ (IF Truthy(a.contains) THEN [Contains |-> a.contains[1]] ELSE <<>>)
    @@ (IF a.sms_enabled THEN [SmsEnabled |-> "true"] ELSE <<>>)
    @@ (IF a.voice_enabled THEN [VoiceEnabled |-> "true"] ELSE <<>>)

\* Mutant: the except branch returns "[], True"
search_phone_numbers_more(S, a, r) ==
    LET reqs == <<Req("available_phone_numbers.local.list",
                      [country_code |-> a.country_code, limit |-> a.limit,
                       params |-> SearchParams(a)])>>
    IN  IF r.status = "ok"
          THEN Plain(S, <<[i \in 1..Len(r.numbers) |-> SearchResult(r.numbers[i])],
                          HasMore(r.numbers, a.limit)>>,
                     S.owned, S.nextSid, reqs)
          ELSE Finish(LogError(S, "twilio_search",
                               <<"Error searching for phone numbers: ", r.error>>),
                      <<<<>>, TRUE>>, S.owned, S.nextSid, reqs)

search_phone_numbers(S, a, r) ==
    LET reqs == <<Req("available_phone_numbers.local.list",
                      [country_code |-> a.country_code, limit |-> a.limit,
                       params |-> SearchParams(a)])>>
    IN  IF r.status = "ok"
          THEN Plain(S, <<[i \in 1..Len(r.numbers) |-> SearchResult(r.numbers[i])],
                          HasMore(r.numbers, a.limit)>>,
                     S.owned, S.nextSid, reqs)
          ELSE Finish(LogError(S, "twilio_search",
                               <<"Error searching for phone numbers: ", r.error>>),
                      <<<<>>, FALSE>>, S.owned, S.nextSid, reqs)

\* self.auth_token
AuthToken == "auth_token"

\* The status codes the provider answers with, and f"{response.status_code}"
StatusCodes == {200, 401, 500}
FormatStatus(c) ==
    CASE c = 200 -> "200"
      [] c = 401 -> "401"
      [] c = 500 -> "500"

\* requests.get(url, params=params, auth=(self.account_sid, self.auth_token))
RawRequest(S, a) ==
    Req("requests.get",
        [url |-> <<"https://api.twilio.com/2010-04-01/Accounts/", S.active_sid,
                   "/AvailablePhoneNumbers/", a.country_code, "/Local.json">>,
         params |-> a.params, auth |-> <<MainSid, AuthToken>>])

\* An exception of requests.get leaves the method: nothing catches it
Propagates(S, e, reqs) ==
    [ret |-> NoValue, exc |-> e, files |-> S.files, textlog |-> S.textlog,
     owned |-> S.owned, nextSid |-> S.nextSid, reqs |-> reqs]

\* Mutant: requests.get is wrapped in "try ... except RequestException"
search_phone_numbers_raw_catches(S, a, r) ==
    LET reqs == <<RawRequest(S, a)>>
    IN  IF r.kind = "transport"
          THEN Finish(LogError(S, "twilio_search_raw", <<"Error ", r.error>>),
                      [available_phone_numbers |-> <<>>], S.owned, S.nextSid, reqs)
        ELSE IF r.status_code = 200
          THEN Plain(S, r.json, S.owned, S.nextSid, reqs)
        ELSE Finish(LogError(S, "twilio_search_raw",
                             <<"Error ", FormatStatus(r.status_code), ": ", r.text>>),
                    [available_phone_numbers |-> <<>>], S.owned, S.nextSid, reqs)

search_phone_numbers_raw(S, a, r) ==
    LET reqs == <<RawRequest(S, a)>>
    IN  IF r.kind = "transport" THEN Propagates(S, r.error, reqs)
        ELSE IF r.status_code = 200
          THEN Plain(S, r.json, S.owned, S.nextSid, reqs)
        ELSE LET error_msg == <<"Error ", FormatStatus(r.status_code), ": ", r.text>>
             IN  Finish(LogError(S, "twilio_search_raw", error_msg),
                        [available_phone_numbers |-> <<>>], S.owned, S.nextSid, reqs)

\* What the provider keeps of an incoming number
Incoming(p, friendly_name) ==
    [phone_number |-> p, friendly_name |-> friendly_name,
     sms_url |-> "", sms_method |-> "POST", voice_url |-> "", voice_method |-> "POST"]

purchase_phone_number(S, a, r) ==
    LET kwargs == IF Truthy(a.friendly_name)
                    THEN [friendly_name |-> a.friendly_name[1]] ELSE <<>>
        reqs == <<Req("incoming_phone_numbers.create",
                      [phone_number |-> a.phone_number, account_sid |-> S.active_sid]
                        @@ kwargs)>>
    IN  IF r.status = "ok"
          THEN LET incoming_number == r.number
               IN  Finish(log_purchase(S.enabled, S.files, S.textlog, Now(S),
                                       incoming_number.phone_number, "purchased",
                                       None, Some(incoming_number.sid), None),
                          [success |-> TRUE, sid |-> incoming_number.sid,
                           phone_number |-> incoming_number.phone_number,
                           friendly_name |-> incoming_number.friendly_name],
                          S.owned @@ (incoming_number.sid :>
                                        Incoming(incoming_number.phone_number,
                                                 incoming_number.friendly_name)),
                          S.nextSid + 1, reqs)
          ELSE LET error_msg == <<"Error purchasing phone number: ", r.error>>
               IN  Finish(log_purchase(S.enabled, S.files, S.textlog, Now(S),
                                       a.phone_number, "failed", None, None,
                                       Some(error_msg)),
                          [success |-> FALSE, error |-> error_msg,
                           phone_number |-> a.phone_number],
                          S.owned, S.nextSid, reqs)

\* The provider lists the account's numbers by identifier
RECURSIVE SortedSeq(_)
SortedSeq(s) ==
    IF s = {} THEN <<>>
    ELSE LET m == CHOOSE x \in s : \A y \in s : x <= y
         IN  <<m>> \o SortedSeq(s \ {m})

NumberResult(sid, n) ==
    [sid |-> sid, phone_number |-> n.phone_number, friendly_name |-> n.friendly_name,
     voice_url |-> n.voice_url, sms_url |-> n.sms_url,
     voice_method |-> n.voice_method, sms_method |-> n.sms_method]

get_account_phone_numbers(S, a, r) ==
    LET reqs == <<Req("incoming_phone_numbers.list", [account_sid |-> S.active_sid])>>
    IN  IF r.status = "ok"
          THEN Plain(S, [i \in 1..Len(r.sids) |-> NumberResult(r.sids[i], S.owned[r.sids[i]])],
                     S.owned, S.nextSid, reqs)
          ELSE Finish(LogError(S, "twilio_get_numbers",
                               <<"Error getting phone numbers: ", r.error>>),
                      <<>>, S.owned, S.nextSid, reqs)

\* Mutant: the except branch of release_phone_number returns True
ReleaseFailed_true(S, r, reqs) ==
    Finish(LogError(S, "twilio_release", <<"Error releasing phone number: ", r.error>>),
           TRUE, S.owned, S.nextSid, reqs)

\* "except TwilioRestException: ... log_error('twilio_release', ...); return False"
ReleaseFailed(S, r, reqs) ==
    Finish(LogError(S, "twilio_release", <<"Error releasing phone number: ", r.error>>),
           FALSE, S.owned, S.nextSid, reqs)

release_phone_number(S, a, r) ==
    LET fetch == Req("incoming_phone_numbers.fetch", [sid |-> a.sid])
        delete == Req("incoming_phone_numbers.delete", [sid |-> a.sid])
    IN  IF r.fetch # "ok" THEN ReleaseFailed(S, r, <<fetch>>)
        ELSE IF r.delete # "ok" THEN ReleaseFailed(S, r, <<fetch, delete>>)
        ELSE LET phone_number == S.owned[a.sid].phone_number
                 gone == [s \in DOMAIN S.owned \ {a.sid} |-> S.owned[s]]
             IN  Finish(log_purchase(S.enabled, S.files, S.textlog, Now(S),
                                     phone_number, "released", None, Some(a.sid), None),
                        TRUE, gone, S.nextSid, <<fetch, delete>>)

\* "if x is not None: kwargs['x'] = x" for the five fields
UpdateFields == {"friendly_name", "sms_url", "sms_method", "voice_url", "voice_method"}
\* Mutant: "if x:" in place of "if x is not None:"
UpdateKwargs_truthy(a) ==
    LET given == {k \in UpdateFields : Truthy(a[k])}
    IN  [k \in given |-> a[k][1]]

UpdateKwargs(a) ==
    LET given == {k \in UpdateFields : a[k] # None}
    IN  [k \in given |-> a[k][1]]

\* The provider overwrites the fields it is sent and keeps the others
Updated(n, kwargs) ==
    [k \in DOMAIN n |-> IF k \in DOMAIN kwargs THEN kwargs[k] ELSE n[k]]

update_phone_number(S, a, r) ==
    LET kwargs == UpdateKwargs(a)
        reqs == <<Req("incoming_phone_numbers.update", [sid |-> a.sid] @@ kwargs)>>
    IN  IF r.status = "ok"
          THEN LET number == Updated(S.owned[a.sid], kwargs)
               IN  Plain(S, [success |-> TRUE] @@ NumberResult(a.sid, number),
                         [S.owned EXCEPT ![a.sid] = number], S.nextSid, reqs)
          ELSE LET error_msg == <<"Error updating phone number: ", r.error>>
               IN  Finish(LogError(S, "twilio_update", error_msg),
                          [success |-> FALSE, error |-> error_msg, sid |-> a.sid],
                          S.owned, S.nextSid, reqs)

\* "if url: kwargs['url'] = url  elif twiml: kwargs['twiml'] = twiml"
\* Mutant: "if twiml:" in place of "elif twiml:"
CallKwargs_both(a) ==
    [to |-> a.to_number, from_ |-> a.from_number]
    @@ (IF Truthy(a.url) THEN [url |-> a.url[1]] ELSE <<>>)
    @@ (IF Truthy(a.twiml) THEN [twiml |-> a.twiml[1]] ELSE <<>>)

CallKwargs(a) ==
    [to |-> a.to_number, from_ |-> a.from_number]
    @@ (IF Truthy(a.url) THEN [url |-> a.url[1]]
        ELSE IF Truthy(a.twiml) THEN [twiml |-> a.twiml[1]]
        ELSE <<>>)

make_call(S, a, r) ==
    LET reqs == <<Req("calls.create", CallKwargs(a))>>
    IN  IF r.status = "ok"
          THEN LET c == r.call
               IN  Finish(log_call(S.enabled, S.files, S.textlog, Now(S),
                                   a.from_number, a.to_number, c.status,
                                   Some(c.sid), None, None),
                          [success |-> TRUE, sid |-> c.sid, status |-> c.status,
                           from |-> a.from_number, to |-> a.to_number,
                           direction |-> c.direction],
                          S.owned, S.nextSid + 1, reqs)
          ELSE LET error_msg == <<"Error making call: ", r.error>>
               IN  Finish(log_call(S.enabled, S.files, S.textlog, Now(S),
                                   a.from_number, a.to_number, "failed",
                                   None, None, Some(error_msg)),
                          [success |-> FALSE, error |-> error_msg,
                           from |-> a.from_number, to |-> a.to_number],
                          S.owned, S.nextSid, reqs)

send_message(S, a, r) ==
    LET reqs == <<Req("messages.create",
                      [to |-> a.to_number, from_ |-> a.from_number, body |-> a.body])>>
    IN  IF r.status = "ok"
          THEN LET message == r.message
               IN  Finish(log_message(S.enabled, S.files, S.textlog, Now(S),
                                      a.from_number, a.to_number, message.status,
                                      Some(a.body), Some(message.sid), None),
                          [success |-> TRUE, sid |-> message.sid,
                           status |-> message.status, from |-> a.from_number,
                           to |-> a.to_number, body |-> a.body],
                          S.owned, S.nextSid + 1, reqs)
          ELSE LET error_msg == <<"Error sending message: ", r.error>>
               IN  Finish(log_message(S.enabled, S.files, S.textlog, Now(S),
                                      a.from_number, a.to_number, "failed",
                                      Some(a.body), None, Some(error_msg)),
                          [success |-> FALSE, error |-> error_msg,
                           from |-> a.from_number, to |-> a.to_number,
                           body |-> a.body],
                          S.owned, S.nextSid, reqs)

\* The provider's record of a call and of a message
CallRecord(i) == [sid |-> i, from_ |-> Phone(1), to |-> Phone(2), status |-> "completed",
                  direction |-> "outbound-api"]
MessageRecord(i) == [sid |-> i, from_ |-> Phone(1), to |-> Phone(2), body |-> <<"h", "i">>,
                     status |-> "delivered", direction |-> "outbound-api"]

get_call_logs(S, a, r) ==
    LET reqs == <<Req("calls.list", [limit |-> a.limit])>>
    IN  IF r.status = "ok"
          THEN Plain(S, [i \in 1..Len(r.calls) |->
                            [sid |-> r.calls[i].sid, from |-> r.calls[i].from_,
                             to |-> r.calls[i].to, status |-> r.calls[i].status,
                             direction |-> r.calls[i].direction]],
                     S.owned, S.nextSid, reqs)
          ELSE Finish(LogError(S, "twilio_call_logs",
                               <<"Error getting call logs: ", r.error>>),
                      <<>>, S.owned, S.nextSid, reqs)

\* Mutant: a rejected listing is asked for a second time
get_message_logs_retries(S, a, r) ==
    LET reqs == <<Req("messages.list", [limit |-> a.limit])>>
    IN  IF r.status = "ok"
          THEN Plain(S, [i \in 1..Len(r.messages) |->
                            [sid |-> r.messages[i].sid, from |-> r.messages[i].from_,
                             to |-> r.messages[i].to, body |-> r.messages[i].body,
                             status |-> r.messages[i].status,
                             direction |-> r.messages[i].direction]],
                     S.owned, S.nextSid, reqs)
          ELSE Finish(LogError(S, "twilio_message_logs",
                               <<"Error getting message logs: ", r.error>>),
                      <<>>, S.owned, S.nextSid, reqs \o reqs)

get_message_logs(S, a, r) ==
    LET reqs == <<Req("messages.list", [limit |-> a.limit])>>
    IN  IF r.status = "ok"
          THEN Plain(S, [i \in 1..Len(r.messages) |->
                            [sid |-> r.messages[i].sid, from |-> r.messages[i].from_,
                             to |-> r.messages[i].to, body |-> r.messages[i].body,
                             status |-> r.messages[i].status,
                             direction |-> r.messages[i].direction]],
                     S.owned, S.nextSid, reqs)
          ELSE Finish(LogError(S, "twilio_message_logs",
                               <<"Error getting message logs: ", r.error>>),
                      <<>>, S.owned, S.nextSid, reqs)

\* The provider's record of an account
Account(sid, friendly_name) ==
    [sid |-> sid, friendly_name |-> friendly_name, status |-> "active", type |-> "Full"]

\* Mutant: the except branch of get_account_info does not log
get_account_info_silent(S, a, r) ==
    LET reqs == <<Req("api.accounts.fetch", [sid |-> S.active_sid])>>
    IN  IF r.status = "ok"
          THEN Plain(S, [sid |-> r.account.sid, friendly_name |-> r.account.friendly_name,
                         status |-> r.account.status, type |-> r.account.type],
                     S.owned, S.nextSid, reqs)
          ELSE Plain(S, [error |-> r.error], S.owned, S.nextSid, reqs)

get_account_info(S, a, r) ==
    LET reqs == <<Req("api.accounts.fetch", [sid |-> S.active_sid])>>
    IN  IF r.status = "ok"
          THEN Plain(S, [sid |-> r.account.sid, friendly_name |-> r.account.friendly_name,
                         status |-> r.account.status, type |-> r.account.type],
                     S.owned, S.nextSid, reqs)
          ELSE Finish(LogError(S, "twilio_account_info",
                               <<"Error getting account info: ", r.error>>),
                      [error |-> r.error], S.owned, S.nextSid, reqs)

\* Mutant: the test "self.active_sid == self.account_sid" is missing
get_subaccounts_always(S, a, r) ==
    LET reqs == <<Req("api.accounts.list", <<>>)>>
    IN  IF r.status = "ok"
          THEN Plain(S, [i \in 1..Len(r.accounts) |->
                            [sid |-> r.accounts[i].sid,
                             friendly_name |-> r.accounts[i].friendly_name,
                             status |-> r.accounts[i].status,
                             type |-> r.accounts[i].type]],
                     S.owned, S.nextSid, reqs)
          ELSE Finish(LogError(S, "twilio_subaccounts",
                               <<"Error getting subaccounts: ", r.error>>),
                      <<>>, S.owned, S.nextSid, reqs)

get_subaccounts(S, a, r) ==
    IF S.active_sid = MainSid
      THEN LET reqs == <<Req("api.accounts.list", <<>>)>>
           IN  IF r.status = "ok"
                 THEN Plain(S, [i \in 1..Len(r.accounts) |->
                                   [sid |-> r.accounts[i].sid,
                                    friendly_name |-> r.accounts[i].friendly_name,
                                    status |-> r.accounts[i].status,
                                    type |-> r.accounts[i].type]],
                            S.owned, S.nextSid, reqs)
                 ELSE Finish(LogError(S, "twilio_subaccounts",
                                      <<"Error getting subaccounts: ", r.error>>),
                             <<>>, S.owned, S.nextSid, reqs)
      ELSE Plain(S, <<>>, S.owned, S.nextSid, <<>>)

create_subaccount(S, a, r) ==
    LET reqs == <<Req("api.accounts.create", [friendly_name |-> a.friendly_name])>>
    IN  IF r.status = "ok"
          THEN Plain(S, [success |-> TRUE, sid |-> r.account.sid,
                         friendly_name |-> r.account.friendly_name,
                         status |-> r.account.status],
                     S.owned, S.nextSid, reqs)
          ELSE LET error_msg == <<"Error creating subaccount: ", r.error>>
               IN  Finish(LogError(S, "twilio_create_subaccount", error_msg),
                          [success |-> FALSE, error |-> error_msg],
                          S.owned, S.nextSid, reqs)

\* ------------------------------------------------------------ the inputs
Body(n) == [i \in 1..n |-> IF i % 2 = 1 THEN "a" ELSE "b"]
Bodies == {Body(2), Body(BodyLimit), Body(BodyLimit + 1)}

Limits == 1..MaxLimit
KnownSids(S) == DOMAIN S.owned \cup S.released

SearchArgs ==
    {[country_code |-> "US", area_code |-> Some("415"), contains |-> None,
      sms_enabled |-> FALSE, voice_enabled |-> TRUE, limit |-> l] : l \in Limits}
SearchResps(a) ==
    {[status |-> "ok", numbers |-> [i \in 1..n |-> Available(Catalogue[i])]] :
        n \in 0..a.limit} \cup Rejections

\* The raw-HTTP search: requests.get raises, or the provider answers with a
\* status code, 200 together with a JSON document
RawArgs == {[country_code |-> "US", params |-> [AreaCode |-> "415"]]}
TransportErrors == {"ConnectionError"}
RawResps ==
    {[kind |-> "transport", error |-> e] : e \in TransportErrors}
    \cup {[kind |-> "response", status_code |-> 200, text |-> "",
           json |-> [available_phone_numbers |->
                       [i \in 1..n |-> Available(Catalogue[i])]]] : n \in 0..1}
    \cup {[kind |-> "response", status_code |-> c, text |-> "denied", json |-> <<>>] :
             c \in StatusCodes \ {200}}

PurchaseArgs ==
    {[phone_number |-> p, friendly_name |-> fn] :
        p \in {Phone(2)}, fn \in {None, Some("Office")}}
PurchaseResps(S, a) ==
    {[status |-> "ok",
      number |-> [sid |-> S.nextSid, phone_number |-> a.phone_number,
                  friendly_name |-> IF Truthy(a.friendly_name)
                                      THEN a.friendly_name[1] ELSE "(415) 555-01xx"]]}
    \cup Rejections

NoArgs == {<<>>}
NumbersResps(S) ==
    {[status |-> "ok", sids |-> SortedSeq(DOMAIN S.owned)]} \cup Rejections

\* The provider only finds, deletes and updates a number the account holds
ReleaseArgs(S) == {[sid |-> s] : s \in KnownSids(S)}
ReleaseResps(S, a) ==
    {[fetch |-> "rejected", delete |-> "none", error |-> e] : e \in ProviderErrors}
    \cup (IF a.sid \in DOMAIN S.owned
            THEN {[fetch |-> "ok", delete |-> "ok", error |-> ""]}
                 \cup {[fetch |-> "ok", delete |-> "rejected", error |-> e] :
                          e \in ProviderErrors}
            ELSE {})

UpdateArgs(S) ==
    {[sid |-> s, friendly_name |-> f[1], sms_url |-> f[2], sms_method |-> f[3],
      voice_url |-> f[4], voice_method |-> f[5]] :
        s \in KnownSids(S),
        f \in {<<None, None, None, None, None>>,
               <<Some(""), None, None, None, None>>,
               <<Some("Office 2"), Some("http://sms"), None, None, None>>,
               <<None, None, Some("GET"), Some("http://voice"), Some("GET")>>}}
UpdateResps(S, a) ==
    (IF a.sid \in DOMAIN S.owned THEN {[status |-> "ok"]} ELSE {}) \cup Rejections

CallArgs ==
    {[from_number |-> Phone(1), to_number |-> Phone(2), url |-> u, twiml |-> t] :
        u \in {None, Some(""), Some("http://twiml")}, t \in {None, Some("<Response/>")}}
CallResps(S) ==
    {[status |-> "ok",
      call |-> [sid |-> S.nextSid, status |-> "queued", direction |-> "outbound-api"]]}
    \cup Rejections

MessageArgs ==
    {[from_number |-> Phone(1), to_number |-> Phone(2), body |-> b] : b \in Bodies}
MessageResps(S) ==
    {[status |-> "ok", message |-> [sid |-> S.nextSid, status |-> "queued"]]}
    \cup Rejections

LimitArgs == {[limit |-> l] : l \in Limits}
CallLogResps(a) ==
    {[status |-> "ok", calls |-> [i \in 1..n |-> CallRecord(i)]] : n \in 0..a.limit}
    \cup Rejections
MessageLogResps(a) ==
    {[status |-> "ok", messages |-> [i \in 1..n |-> MessageRecord(i)]] : n \in 0..a.limit}
    \cup Rejections

AccountInfoResps(S) ==
    {[status |-> "ok", account |-> Account(S.active_sid, "My account")]} \cup Rejections
SubaccountsResps ==
    {[status |-> "ok", accounts |-> l] : l \in {<<>>, <<Account(SubSid, "Sub")>>}}
    \cup Rejections
CreateArgs == {[friendly_name |-> "Sub"]}
CreateResps ==
    {[status |-> "ok", account |-> Account("AC_new", "Sub")]} \cup Rejections

\* ------------------------------------------------------------- the actions
Invoke(name, S, a, r) ==
    CASE name = "search_phone_numbers" -> search_phone_numbers(S, a, r)
      [] name = "search_phone_numbers_raw" -> search_phone_numbers_raw(S, a, r)
      [] name = "purchase_phone_number" -> purchase_phone_number(S, a, r)
      [] name = "get_account_phone_numbers" -> get_account_phone_numbers(S, a, r)
      [] name = "release_phone_number" -> release_phone_number(S, a, r)
      [] name = "update_phone_number" -> update_phone_number(S, a, r)
      [] name = "make_call" -> make_call(S, a, r)
      [] name = "send_message" -> send_message(S, a, r)
      [] name = "get_call_logs" -> get_call_logs(S, a, r)
      [] name = "get_message_logs" -> get_message_logs(S, a, r)
      [] name = "get_account_info" -> get_account_info(S, a, r)
      [] name = "get_subaccounts" -> get_subaccounts(S, a, r)
      [] name = "create_subaccount" -> create_subaccount(S, a, r)

\* The caller has invocations left to make
Running == steps < MaxSteps

\* One invocation of a gateway method by the (single-threaded) caller
Do(name, a, r) ==
    /\ \E o \in {Invoke(name, Here, a, r)} :
           /\ files' = o.files
           /\ textlog' = o.textlog
           /\ owned' = o.owned
           /\ released' = released \cup (DOMAIN owned \ DOMAIN o.owned)
           /\ nextSid' = o.nextSid
           /\ ret' = o.ret
           /\ exc' = o.exc
           /\ call' = [name |-> name, args |-> a, resp |-> r, reqs |-> o.reqs,
                       pre |-> Here]
    /\ clock' = clock + 1
    /\ steps' = steps + 1
    /\ UNCHANGED <<config_account_sid, config_auth_token, config_subaccount_sid,
                   enabled, active_sid, writers>>

SearchPhoneNumbers ==
    /\ Running
    /\ \E a \in SearchArgs : \E r \in SearchResps(a) :
           Do("search_phone_numbers", a, r)
SearchPhoneNumbersRaw ==
    /\ Running
    /\ \E a \in RawArgs : \E r \in RawResps :
           Do("search_phone_numbers_raw", a, r)
PurchasePhoneNumber ==
    /\ Running
    /\ \E a \in PurchaseArgs : \E r \in PurchaseResps(Here, a) :
           Do("purchase_phone_number", a, r)
GetAccountPhoneNumbers ==
    /\ Running
    /\ \E a \in NoArgs : \E r \in NumbersResps(Here) :
           Do("get_account_phone_numbers", a, r)
ReleasePhoneNumber ==
    /\ Running
    /\ \E a \in ReleaseArgs(Here) : \E r \in ReleaseResps(Here, a) :
           Do("release_phone_number", a, r)
UpdatePhoneNumber ==
    /\ Running
    /\ \E a \in UpdateArgs(Here) : \E r \in UpdateResps(Here, a) :
           Do("update_phone_number", a, r)
MakeCall ==
    /\ Running
    /\ \E a \in CallArgs : \E r \in CallResps(Here) :
           Do("make_call", a, r)
SendMessage ==
    /\ Running
    /\ \E a \in MessageArgs : \E r \in MessageResps(Here) :
           Do("send_message", a, r)
GetCallLogs ==
    /\ Running
    /\ \E a \in LimitArgs : \E r \in CallLogResps(a) :
           Do("get_call_logs", a, r)
GetMessageLogs ==
    /\ Running
    /\ \E a \in LimitArgs : \E r \in MessageLogResps(a) :
           Do("get_message_logs", a, r)
GetAccountInfo ==
    /\ Running
    /\ \E a \in NoArgs : \E r \in AccountInfoResps(Here) :
           Do("get_account_info", a, r)
GetSubaccounts ==
    /\ Running
    /\ \E a \in NoArgs : \E r \in SubaccountsResps :
           Do("get_subaccounts", a, r)
CreateSubaccount ==
    /\ Running
    /\ \E a \in CreateArgs : \E r \in CreateResps :
           Do("create_subaccount", a, r)

\* A call that reaches neither the provider nor the logger
Quiet(name, a) ==
    /\ clock' = clock + 1
    /\ steps' = steps + 1
    /\ call' = [name |-> name, args |-> a, resp |-> <<>>, reqs |-> <<>>, pre |-> Here]
    /\ ret' = None
    /\ exc' = NoExc
    /\ UNCHANGED <<config_account_sid, config_auth_token, enabled, files, textlog,
                   owned, released, nextSid, writers>>

\* config.switch_subaccount
SwitchSubaccount ==
    /\ Running
    /\ \E sub \in {None, Some(""), Some(SubSid)} :
           /\ config_subaccount_sid' = sub
           /\ Quiet("switch_subaccount", [subaccount_sid |-> sub])
    /\ UNCHANGED active_sid

\* TwilioGateway.refresh_client
RefreshClient ==
    /\ Running
    /\ active_sid' = config_active_sid(config_subaccount_sid)
    /\ Quiet("refresh_client", <<>>)
    /\ UNCHANGED config_subaccount_sid

\* A process outside _write_json_log; done counts the log calls it completed
IdleWriter == [pc |-> "idle", done |-> 0, log_file |-> <<>>, logs |-> <<>>,
               entry |-> <<>>]

\* load_config, FileLogger.__init__ and TwilioGateway.__init__: a fresh log
\* directory, an account that holds one number
Init ==
    /\ config_account_sid = MainSid
    /\ config_auth_token = AuthToken
    /\ config_subaccount_sid \in {None, Some(SubSid)}
    /\ enabled \in BOOLEAN
    /\ clock \in StartTimes
    /\ steps = 0
    /\ files = [f \in Categories \X Days |-> MissingFile]
    /\ textlog = IF enabled
                   THEN <<Line("INFO", clock, <<"File logger initialized">>)>>
                   ELSE <<>>
    /\ active_sid = IF Truthy(config_subaccount_sid)
                      THEN config_subaccount_sid[1] ELSE MainSid
    /\ owned = (1 :> Incoming(Phone(1), "Office"))
    /\ released = {}
    /\ nextSid = 2
    /\ call = [name |-> "__init__", args |-> <<>>, resp |-> <<>>, reqs |-> <<>>,
               pre |-> <<>>]
    /\ ret = None
    /\ exc = NoExc
    /\ writers = [w \in Writers |-> IdleWriter]

Next ==
    \/ SearchPhoneNumbers
    \/ SearchPhoneNumbersRaw
    \/ PurchasePhoneNumber
    \/ GetAccountPhoneNumbers
    \/ ReleasePhoneNumber
    \/ UpdatePhoneNumber
    \/ MakeCall
    \/ SendMessage
    \/ GetCallLogs
    \/ GetMessageLogs
    \/ GetAccountInfo
    \/ GetSubaccounts
    \/ CreateSubaccount
    \/ SwitchSubaccount
    \/ RefreshClient

Spec == Init /\ [][Next]_vars

\* ------------------------------------------------- a damaged log directory
\* Somebody other than the logger leaves one of today's day files as text
\* that is no JSON, as JSON that is no array (an object, a string, a number,
\* null), or takes away the permission to write it.
Damages(f) ==
    {[kind |-> "garbage", logs |-> <<>>, writable |-> f.writable],
     [kind |-> "nonarray", logs |-> <<>>, writable |-> f.writable],
     [f EXCEPT !.writable = FALSE]}

DamageLogFile ==
    /\ Running
    /\ steps' = steps + 1
    /\ \E c \in Categories : \E d \in Damages(files[<<c, strftime(clock + 1)>>]) :
           files' = [files EXCEPT ![<<c, strftime(clock + 1)>>] = d]
    /\ UNCHANGED <<config_account_sid, config_auth_token, config_subaccount_sid,
                   enabled, textlog, clock, active_sid,
                   owned, released, nextSid, call, ret, exc, writers>>

NextDamaged == Next \/ DamageLogFile

SpecDamaged == Init /\ [][NextDamaged]_vars

\* ------------------------------------------------- two writing processes
\* Two processes call file_logger.log_error on one log directory.  The call
\* is taken in the two steps the claim about it names: the record is stamped
\* and the day file read (_write_json_log up to "logs = []"), then the record
\* is appended to the list read, the file rewritten and the text line added.
WriterErrorTypes == {"twilio_search", "twilio_call_logs"}
WriterData(w, error_type) ==
    [type |-> error_type, message |-> <<"Error from ", w>>, details |-> <<>>]

\* "if not self.enabled: return", the timestamp, the path and json.load
WriterLoad(w) ==
    /\ Running
    /\ writers[w].pc = "idle"
    /\ \E error_type \in WriterErrorTypes :
           LET t == clock + 1
               log_file == _get_log_file_path("error", t)
               f == files[log_file]
           IN  writers' =
                   IF ~enabled
                     THEN [writers EXCEPT ![w].done = @ + 1]
                     ELSE [writers EXCEPT ![w] =
                              [pc |-> "loaded", done |-> @.done, log_file |-> log_file,
                               logs |-> IF f.kind = "missing" THEN <<>>
                                        ELSE json_load(f).logs,
                               entry |-> Stamp(WriterData(w, error_type), t)]]
    /\ clock' = clock + 1
    /\ steps' = steps + 1
    /\ UNCHANGED <<config_account_sid, config_auth_token, config_subaccount_sid,
                   enabled, files, textlog, active_sid,
                   owned, released, nextSid, call, ret, exc>>

\* Mutant: the list read is dumped back without the new record
WriterDump_forgets(w) ==
    /\ writers[w].pc = "loaded"
    /\ files' = [files EXCEPT ![writers[w].log_file] = ArrayFile(writers[w].logs)]
    /\ textlog' = Append(textlog,
                         Line("ERROR", clock,
                              <<writers[w].entry.type, ": ">> \o writers[w].entry.message))
    /\ writers' = [writers EXCEPT ![w] = [IdleWriter EXCEPT !.done = writers[w].done + 1]]
    /\ UNCHANGED <<config_account_sid, config_auth_token, config_subaccount_sid,
                   enabled, clock, steps, active_sid,
                   owned, released, nextSid, call, ret, exc>>

\* "logs.append(data)", the rewrite of the file, and log_error's text line
WriterDump(w) ==
    /\ writers[w].pc = "loaded"
    /\ files' = [files EXCEPT ![writers[w].log_file] =
                     ArrayFile(Append(writers[w].logs, writers[w].entry))]
    /\ textlog' = Append(textlog,
                         Line("ERROR", clock,
                              <<writers[w].entry.type, ": ">> \o writers[w].entry.message))
    /\ writers' = [writers EXCEPT ![w] = [IdleWriter EXCEPT !.done = writers[w].done + 1]]
    /\ UNCHANGED <<config_account_sid, config_auth_token, config_subaccount_sid,
                   enabled, clock, steps, active_sid,
                   owned, released, nextSid, call, ret, exc>>

NextWriters ==
    \/ \E w \in Writers : WriterLoad(w)
    \/ \E w \in Writers : WriterDump(w)

SpecWriters == Init /\ [][NextWriters]_vars

\* ============================================================== the claims
GatewayMethods ==
    {"search_phone_numbers", "purchase_phone_number", "get_account_phone_numbers",
     "release_phone_number", "update_phone_number", "make_call", "send_message",
     "get_call_logs", "get_message_logs", "get_account_info", "get_subaccounts",
     "create_subaccount"}
IsGatewayCall == call.name \in GatewayMethods

\* The provider rejected a request of the call just made
ProviderRejected ==
    /\ IsGatewayCall
    /\ call.reqs # <<>>
    /\ IF call.name = "release_phone_number"
         THEN call.resp.fetch # "ok" \/ call.resp.delete # "ok"
         ELSE call.resp.status = "rejected"

\* The call just made ended at the present clock value, on this day
Today == clock \div TicksPerDay
DayFiles == Categories \X Days
Before(path) == call.pre.files[path].logs
After(path) == files[path].logs
Kept(path) ==
    /\ Len(After(path)) >= Len(Before(path))
    /\ SubSeq(After(path), 1, Len(Before(path))) = Before(path)
Grown(path) == Len(After(path)) - Len(Before(path))

\* The call appended one record to today's file of category c, none elsewhere
AppendedOneTo(c) ==
    \A path \in DayFiles :
        /\ Kept(path)
        /\ Grown(path) = IF path = <<c, Today>> THEN 1 ELSE 0
NothingAppended == files = call.pre.files
Last(c) == After(<<c, Today>>)[Len(After(<<c, Today>>))]

\* The instant an ISO timestamp denotes
WrittenAt(rec) == rec.timestamp.date * TicksPerDay + rec.timestamp.time

\* A text made of pieces contains the piece e
Contains(text, e) == \E i \in 1..Len(text) : text[i] = e

OwnCategory(name) ==
    CASE name \in {"purchase_phone_number", "release_phone_number"} -> "purchase"
      [] name = "make_call" -> "call"
      [] name = "send_message" -> "message"
RecordingMethods ==
    {"purchase_phone_number", "release_phone_number", "make_call", "send_message"}

\* C1 as stated: with logging enabled, every purchase, release, call and
\* message invocation, accepted or rejected, appends exactly one record,
\* stamped at write time, to the file of its own category (purchase for
\* purchase and release) and none to any other file.
C1_AsStated ==
    (enabled /\ call.name \in RecordingMethods) =>
        /\ AppendedOneTo(OwnCategory(call.name))
        /\ WrittenAt(Last(OwnCategory(call.name))) = clock

C1_Category ==
    IF call.name = "release_phone_number" /\ ProviderRejected
      THEN "error" ELSE OwnCategory(call.name)
\* C1 amended: as C1, except that a release the provider rejects appends its
\* one record to the error file and none to the purchase file.
C1_OneRecordInCategory ==
    (enabled /\ call.name \in RecordingMethods) =>
        /\ exc = NoExc
        /\ AppendedOneTo(C1_Category)
        /\ WrittenAt(Last(C1_Category)) = clock
C1_Witness ==
    /\ enabled
    /\ call.name = "release_phone_number"
    /\ ProviderRejected
    /\ Grown(<<"error", Today>>) = 1
    /\ Grown(<<"purchase", Today>>) = 0
    /\ Len(After(<<"error", Today>>)) = 2

FallibleMethods == GatewayMethods \ {"get_account_info"}
RecordsAdded(n) ==
    /\ \A path \in DayFiles : Kept(path) /\ Grown(path) \in {0, 1}
    /\ Cardinality({path \in DayFiles : Grown(path) = 1}) = n
\* C2 as stated: every gateway call that can fail writes exactly one record,
\* on its success path as well as on its failure path.
C2_AsStated ==
    (enabled /\ call.name \in FallibleMethods /\ call.reqs # <<>>) => RecordsAdded(1)

\* C2 amended: a call the provider rejects writes exactly one record before
\* it returns; an accepted purchase, release, call or message writes exactly
\* one; an accepted search, update, listing or subaccount creation none.
C2_OneRecordPerFailure ==
    (enabled /\ call.name \in FallibleMethods) =>
        /\ exc = NoExc
        /\ RecordsAdded(IF ProviderRejected \/ call.name \in RecordingMethods
                          THEN 1 ELSE 0)
C2_Witness ==
    /\ enabled
    /\ call.name = "create_subaccount"
    /\ ProviderRejected
    /\ ret.success = FALSE
    /\ Grown(<<"error", Today>>) = 1

\* C3 as stated: the JSON record of a message whose body is longer than 100
\* characters carries the original body.
C3_AsStated ==
    (enabled /\ call.name = "send_message" /\ Len(call.args.body) > BodyLimit) =>
        Last("message").body = Some(call.args.body)

C3_RecordBody == Last("message").body[1]
C3_MirrorLine == textlog[Len(textlog)].message
C3_LineHead ==
    <<"Message from ", call.args.from_number, " to ", call.args.to_number, ": ",
      Last("message").status>>
\* C3 amended: the body field of the JSON record of such a message is its
\* first 97 characters followed by '...' (100 characters); a body of at most
\* 100 characters is recorded whole; the text-mirror line carries no body.
C3_RecordBodyIsCut ==
    (enabled /\ call.name = "send_message") =>
        /\ Len(After(<<"message", Today>>)) > 0
        /\ IF Len(call.args.body) > BodyLimit
             THEN /\ Len(C3_RecordBody) = BodyLimit
                  /\ \A i \in 1..BodyKeep : C3_RecordBody[i] = call.args.body[i]
                  /\ \A i \in (BodyKeep + 1)..BodyLimit : C3_RecordBody[i] = "."
             ELSE C3_RecordBody = call.args.body
        /\ C3_MirrorLine =
               IF Last("message").error = None THEN C3_LineHead
               ELSE C3_LineHead \o <<" - Error: ", Last("message").error[1]>>
C3_Witness ==
    /\ enabled
    /\ call.name = "send_message"
    /\ Len(call.args.body) = BodyLimit + 1
    /\ Len(C3_RecordBody) = BodyLimit
    /\ ret.body = call.args.body

\* C4: a search with limit L that the provider answers with fewer than L
\* numbers returns has_more = false, with exactly L numbers has_more = true,
\* and the list returned has the provider's length and order.
C4_HasMoreMatchesCount ==
    (call.name = "search_phone_numbers" /\ call.resp.status = "ok") =>
        /\ exc = NoExc
        /\ Len(call.resp.numbers) < call.args.limit => ret[2] = FALSE
        /\ Len(call.resp.numbers) = call.args.limit => ret[2] = TRUE
        /\ Len(ret[1]) = Len(call.resp.numbers)
        /\ \A i \in 1..Len(ret[1]) :
               ret[1][i].phone_number = call.resp.numbers[i].phone_number
C4_Witness ==
    /\ call.name = "search_phone_numbers"
    /\ call.resp.status = "ok"
    /\ call.args.limit > 1
    /\ Len(call.resp.numbers) = call.args.limit
    /\ ret[2] = TRUE
    /\ ret[1][1].phone_number # ret[1][2].phone_number

\* C5: a purchase the provider rejects returns success = false, an error
\* text containing the provider's error and the phone number it was given,
\* and (the logger being enabled) appends one purchase record with status
\* 'failed' and that error text, and no record with status 'purchased'.
C5_FailedPurchase ==
    (call.name = "purchase_phone_number" /\ ProviderRejected) =>
        /\ exc = NoExc
        /\ ret.success = FALSE
        /\ Contains(ret.error, call.resp.error)
        /\ ret.phone_number = call.args.phone_number
        /\ owned = call.pre.owned
        /\ enabled =>
            /\ AppendedOneTo("purchase")
            /\ Last("purchase").status = "failed"
            /\ Last("purchase").error = Some(ret.error)
            /\ Last("purchase").phone_number = call.args.phone_number
        /\ ~enabled => NothingAppended
C5_Witness ==
    /\ enabled
    /\ call.name = "purchase_phone_number"
    /\ ProviderRejected
    /\ ret.success = FALSE
    /\ Last("purchase").status = "failed"

C6_Fetch == "incoming_phone_numbers.fetch"
C6_Delete == "incoming_phone_numbers.delete"
C6_ReleasedRecords(sid) ==
    {<<path, i>> \in DayFiles \X (1..MaxSteps) :
        /\ i <= Len(After(path))
        /\ path[1] = "purchase"
        /\ After(path)[i].status = "released"
        /\ After(path)[i].sid = Some(sid)}
\* C6: releases of one identifier.  The number is fetched before it is
\* deleted; a release returns true only for an identifier not released
\* before, so at most one release of it returns true (and at most one
\* 'released' record of it is ever logged); a release of an identifier
\* already released returns false without raising, sends no delete request
\* and (the logger being enabled) logs one error record.
C6_ReleaseOnce ==
    /\ \A sid \in DOMAIN owned \cup released :
           Cardinality(C6_ReleasedRecords(sid)) <= 1
    /\ call.name = "release_phone_number" =>
        /\ exc = NoExc
        /\ ret \in BOOLEAN
        /\ call.reqs[1].request = C6_Fetch
        /\ \A i \in 1..Len(call.reqs) :
               call.reqs[i].request = C6_Delete =>
                   i = 2 /\ call.resp.fetch = "ok"
        /\ ret = TRUE =>
            /\ call.args.sid \notin call.pre.released
            /\ call.args.sid \in released
            /\ call.args.sid \notin DOMAIN owned
        /\ call.args.sid \in call.pre.released =>
            /\ ret = FALSE
            /\ \A i \in 1..Len(call.reqs) : call.reqs[i].request # C6_Delete
            /\ enabled => AppendedOneTo("error") /\ Last("error").type = "twilio_release"
C6_Witness ==
    /\ enabled
    /\ call.name = "release_phone_number"
    /\ call.args.sid \in call.pre.released
    /\ Cardinality(C6_ReleasedRecords(call.args.sid)) = 1
    /\ ret = FALSE
    /\ Grown(<<"error", Today>>) = 1

C7_Target == <<C1_Category, Today>>
\* C7 as stated: when the day file a logging call writes to holds text that
\* is no JSON, or JSON that is no array, the call completes without raising
\* and leaves a file holding exactly one record, the new one.
C7_AsStated ==
    (/\ enabled
     /\ call.name \in RecordingMethods
     /\ call.pre.files[C7_Target].kind \in {"garbage", "nonarray"}
     /\ call.pre.files[C7_Target].writable) =>
        /\ exc = NoExc
        /\ files[C7_Target].kind = "array"
        /\ Len(After(C7_Target)) = 1
        /\ WrittenAt(After(C7_Target)[1]) = clock

\* C8 as stated: an account-info request the provider rejects returns an
\* error-shaped record and writes nothing to the file logger.
C8_AsStated ==
    (call.name = "get_account_info" /\ ProviderRejected) =>
        /\ ret = [error |-> call.resp.error]
        /\ NothingAppended

\* C8 amended: it returns the error-shaped record and (the logger being
\* enabled) appends exactly one record, of type 'twilio_account_info' and
\* carrying the provider's error, to the error file.
C8_ErrorIsLogged ==
    (call.name = "get_account_info" /\ ProviderRejected) =>
        /\ exc = NoExc
        /\ ret = [error |-> call.resp.error]
        /\ enabled =>
            /\ AppendedOneTo("error")
            /\ Last("error").type = "twilio_account_info"
            /\ Contains(Last("error").message, call.resp.error)
        /\ ~enabled => NothingAppended
C8_Witness ==
    /\ enabled
    /\ call.name = "get_account_info"
    /\ ProviderRejected
    /\ ret = [error |-> call.resp.error]
    /\ Grown(<<"error", Today>>) = 1

\* C9: with the logger disabled a gateway call, through whichever log_*
\* method it calls, leaves every log file and the text log as they were, and
\* returns what the same call with the same provider answers returns with
\* the logger enabled.
C9_DisabledIsNoOp ==
    (~enabled /\ IsGatewayCall) =>
        /\ NothingAppended
        /\ textlog = call.pre.textlog
        /\ exc = NoExc
        /\ \E o \in {Invoke(call.name, [call.pre EXCEPT !.enabled = TRUE],
                            call.args, call.resp)} :
               o.exc = NoExc /\ o.ret = ret
C9_Witness ==
    /\ ~enabled
    /\ call.name = "send_message"
    /\ ProviderRejected
    /\ ret.success = FALSE
    /\ textlog = <<>>
    /\ \A path \in DayFiles : files[path] = MissingFile

\* C10 as stated: whatever the state of the log files, a gateway call raises
\* nothing and returns what it returns when the log write succeeds.
C10_AsStated ==
    IsGatewayCall =>
        /\ exc = NoExc
        /\ \E o \in {Invoke(call.name,
                            [call.pre EXCEPT !.files = [f \in DayFiles |-> MissingFile]],
                            call.args, call.resp)} :
               o.ret = ret

ListingMethods ==
    {"get_account_phone_numbers", "get_call_logs", "get_message_logs", "get_subaccounts"}
\* The failure value a method returns in place of a result
C11_FailureValue ==
    CASE call.name = "search_phone_numbers" -> ret = <<<<>>, FALSE>>
      [] call.name \in ListingMethods -> ret = <<>>
      [] call.name = "release_phone_number" -> ret = FALSE
      [] call.name = "get_account_info" -> DOMAIN ret = {"error"}
      [] OTHER -> "success" \in DOMAIN ret /\ ret.success = FALSE
\* The request the provider rejected is the last one the call issued
C11_RejectedRequest == call.reqs[Len(call.reqs)].request
C11_Attempts ==
    Cardinality({i \in 1..Len(call.reqs) : call.reqs[i].request = C11_RejectedRequest})
\* C11: a provider rejection of a request of an SDK-backed gateway method
\* does not leave the method as an exception: the method returns its failure
\* value (empty list, false, or a dictionary with success = false or an error
\* key), the rejected request was issued once, and nothing was requested
\* after it.
C11_RejectionIsReturned ==
    ProviderRejected =>
        /\ exc = NoExc
        /\ C11_FailureValue
        /\ C11_Attempts = 1
        /\ Len(call.reqs) =
               IF call.name = "release_phone_number" /\ call.resp.fetch = "ok"
                 THEN 2 ELSE 1
        /\ owned = call.pre.owned
C11_Witness ==
    /\ call.name = "release_phone_number"
    /\ call.resp.fetch = "ok"
    /\ call.resp.delete = "rejected"
    /\ exc = NoExc
    /\ ret = FALSE
    /\ Len(call.reqs) = 2

\* C12: a search the provider rejects returns the empty list with
\* has_more = false, raises nothing and (the logger being enabled) appends
\* exactly one record, of type 'twilio_search' and carrying the provider's
\* error, to the error file and none to any other file.
C12_FailedSearch ==
    (call.name = "search_phone_numbers" /\ ProviderRejected) =>
        /\ exc = NoExc
        /\ ret = <<<<>>, FALSE>>
        /\ enabled =>
            /\ AppendedOneTo("error")
            /\ Last("error").type = "twilio_search"
            /\ Contains(Last("error").message, call.resp.error)
        /\ ~enabled => NothingAppended
C12_Witness ==
    /\ enabled
    /\ call.name = "search_phone_numbers"
    /\ ProviderRejected
    /\ ret = <<<<>>, FALSE>>
    /\ Grown(<<"error", Today>>) = 1
    /\ Last("error").type = "twilio_search"

C13_Raw == call.name = "search_phone_numbers_raw"
C13_Empty == [available_phone_numbers |-> <<>>]
\* C13: on the raw-HTTP search path a transport failure of requests.get
\* leaves the method as that exception and no record is written; a response
\* with a status other than 200 is returned as an empty
\* available_phone_numbers list and (the logger being enabled) exactly one
\* error record, of type 'twilio_search_raw', is appended; a 200 response is
\* returned as the provider's document and no record is written.  One
\* request is sent in each case.
C13_RawSearch ==
    C13_Raw =>
        /\ Len(call.reqs) = 1
        /\ call.resp.kind = "transport" =>
            /\ exc = call.resp.error
            /\ NothingAppended
            /\ textlog = call.pre.textlog
        /\ (call.resp.kind = "response" /\ call.resp.status_code = 200) =>
            /\ exc = NoExc
            /\ ret = call.resp.json
            /\ NothingAppended
        /\ (call.resp.kind = "response" /\ call.resp.status_code # 200) =>
            /\ exc = NoExc
            /\ ret = C13_Empty
            /\ enabled =>
                /\ AppendedOneTo("error")
                /\ Last("error").type = "twilio_search_raw"
                /\ Contains(Last("error").message, FormatStatus(call.resp.status_code))
                /\ Contains(Last("error").message, call.resp.text)
            /\ ~enabled => NothingAppended
C13_Witness ==
    /\ enabled
    /\ C13_Raw
    /\ call.resp.kind = "transport"
    /\ exc = "ConnectionError"
    /\ NothingAppended
    /\ Len(files[<<"error", Today>>].logs) = 1

C14_Sent == call.reqs[1].kwargs
C14_Supplied == {k \in UpdateFields : call.args[k] # None}
\* C14: update_phone_number sends the provider one request that carries the
\* identifier and exactly the fields among friendly_name, sms_url,
\* sms_method, voice_url, voice_method the caller supplied (not None), each
\* with the value supplied, an empty string included; an omitted field is
\* not sent, and the number keeps its value of it.
C14_OnlySuppliedFields ==
    call.name = "update_phone_number" =>
        /\ Len(call.reqs) = 1
        /\ DOMAIN C14_Sent = {"sid"} \cup C14_Supplied
        /\ C14_Sent.sid = call.args.sid
        /\ \A k \in C14_Supplied : C14_Sent[k] = call.args[k][1]
        /\ call.resp.status = "ok" =>
               \A k \in UpdateFields :
                   owned[call.args.sid][k] =
                       IF k \in C14_Supplied THEN call.args[k][1]
                       ELSE call.pre.owned[call.args.sid][k]
C14_Witness ==
    /\ call.name = "update_phone_number"
    /\ call.resp.status = "ok"
    /\ call.args.friendly_name = Some("")
    /\ DOMAIN C14_Sent = {"sid", "friendly_name"}
    /\ C14_Sent.friendly_name = ""
    /\ call.pre.owned[call.args.sid].friendly_name = "Office"
    /\ owned[call.args.sid].friendly_name = ""

C15_Sent == call.reqs[1].kwargs
\* C15: the one provider request of make_call never carries both a url and
\* inline instructions (twiml): a url that is given (not None, not empty) is
\* sent alone, whether or not twiml is given too; twiml is sent only when no
\* url is; with neither, neither is sent.  The call appends (the logger being
\* enabled) one record to the call file and none elsewhere, with the
\* provider's status when it accepts and with status 'failed' when it rejects.
C15_UrlOrTwiml ==
    call.name = "make_call" =>
        /\ exc = NoExc
        /\ Len(call.reqs) = 1
        /\ ~({"url", "twiml"} \subseteq DOMAIN C15_Sent)
        /\ DOMAIN C15_Sent \subseteq {"to", "from_", "url", "twiml"}
        /\ Truthy(call.args.url) =>
               "url" \in DOMAIN C15_Sent /\ C15_Sent.url = call.args.url[1]
        /\ (~Truthy(call.args.url) /\ Truthy(call.args.twiml)) =>
               "twiml" \in DOMAIN C15_Sent /\ C15_Sent.twiml = call.args.twiml[1]
        /\ (~Truthy(call.args.url) /\ ~Truthy(call.args.twiml)) =>
               DOMAIN C15_Sent = {"to", "from_"}
        /\ enabled =>
            /\ AppendedOneTo("call")
            /\ Last("call").status =
                   IF ProviderRejected THEN "failed" ELSE call.resp.call.status
        /\ ~enabled => NothingAppended
C15_Witness ==
    /\ enabled
    /\ call.name = "make_call"
    /\ ProviderRejected
    /\ Truthy(call.args.url)
    /\ Truthy(call.args.twiml)
    /\ DOMAIN C15_Sent = {"to", "from_", "url"}
    /\ Grown(<<"call", Today>>) = 1
    /\ Last("call").status = "failed"

\* C16: get_subaccounts returns a non-empty list only when the gateway's
\* active identifier is the main account, and then the provider's list in
\* the provider's order; when the gateway's active identifier is a
\* subaccount it returns the empty list, sends no request to the provider
\* and writes nothing to the log, whatever the provider would have answered.
C16_MainAccountOnly ==
    call.name = "get_subaccounts" =>
        /\ exc = NoExc
        /\ ret # <<>> => call.pre.active_sid = MainSid
        /\ call.pre.active_sid # MainSid =>
            /\ ret = <<>>
            /\ call.reqs = <<>>
            /\ NothingAppended
            /\ textlog = call.pre.textlog
        /\ (call.pre.active_sid = MainSid /\ call.resp.status = "ok") =>
            /\ Len(call.reqs) = 1
            /\ Len(ret) = Len(call.resp.accounts)
            /\ \A i \in 1..Len(ret) : ret[i].sid = call.resp.accounts[i].sid
C16_Witness ==
    /\ enabled
    /\ call.name = "get_subaccounts"
    /\ call.pre.active_sid = SubSid
    /\ config_subaccount_sid = None
    /\ call.resp.status = "ok"
    /\ Len(call.resp.accounts) = 1
    /\ ret = <<>>
    /\ call.reqs = <<>>

\* The records of a file before and after one step
C17_Old(path) == files[path].logs
C17_New(path) == files'[path].logs
C17_Step ==
    /\ \A path \in DayFiles :
           /\ Len(C17_New(path)) - Len(C17_Old(path)) \in {0, 1}
           /\ SubSeq(C17_New(path), 1, Len(C17_Old(path))) = C17_Old(path)
           /\ Len(C17_New(path)) > Len(C17_Old(path)) =>
                  /\ path[2] = strftime(clock')
                  /\ C17_New(path)[Len(C17_New(path))].timestamp = isoformat(clock')
    /\ Cardinality({path \in DayFiles : C17_New(path) # C17_Old(path)}) <= 1
\* C17: the log files are append-only.  Every step of the single writer
\* leaves the records a category/day file held in place, unchanged and in
\* their order, as a prefix of the file; a step that writes lengthens one
\* file, today's, by exactly one record, placed last and stamped at the time
\* of the write.
C17_AppendOnly == [][C17_Step]_vars
C17_Witness ==
    /\ IsGatewayCall
    /\ \E path \in DayFiles :
           /\ Len(Before(path)) = 1
           /\ Len(After(path)) = 2
           /\ After(path)[1] = Before(path)[1]
           /\ After(path)[2] # After(path)[1]

RECURSIVE C18_Sum(_, _)
C18_Sum(f, S) ==
    IF S = {} THEN 0
    ELSE LET x == CHOOSE y \in S : TRUE IN f[x] + C18_Sum(f, S \ {x})
\* The records the files hold, and the log calls that have returned
C18_Records == C18_Sum([path \in DayFiles |-> Len(files[path].logs)], DayFiles)
C18_Completed == C18_Sum([w \in Writers |-> writers[w].done], Writers)
\* The processes that have begun a log call
C18_Active == {w \in Writers : writers[w] # IdleWriter}
\* C18: with the logger enabled, the files never hold more records than log
\* calls have returned, and hold at least one once a call has returned; as
\* long as a single process has written, they hold exactly one record for
\* each call that has returned (no record is lost), and the text log one line
\* for each.  With two processes a record can be missing: see the witness,
\* where both calls have returned and the file holds one record.
C18_SingleWriterLosesNothing ==
    enabled =>
        /\ C18_Records <= C18_Completed
        /\ C18_Completed > 0 => C18_Records > 0
        /\ Len(textlog) = 1 + C18_Completed
        /\ Cardinality(C18_Active) <= 1 => C18_Records = C18_Completed
C18_Witness ==
    /\ enabled
    /\ \A w \in Writers : writers[w].pc = "idle" /\ writers[w].done = 1
    /\ Len(textlog) = 3
    /\ C18_Records = 1
    /\ Len(files[<<"error", Today>>].logs) = 1

\* config.twilio.active_sid, as the configuration stands
C19_ConfigActive == config_active_sid(config_subaccount_sid)
\* The account a request is scoped to, for the methods that scope theirs
C19_ScopedMethods ==
    {"purchase_phone_number", "get_account_phone_numbers", "get_account_info",
     "search_phone_numbers_raw"}
C19_Scope(c) ==
    CASE c.name \in {"purchase_phone_number", "get_account_phone_numbers"} ->
             c.reqs[1].kwargs.account_sid
      [] c.name = "get_account_info" -> c.reqs[1].kwargs.sid
      [] c.name = "search_phone_numbers_raw" -> c.reqs[1].kwargs.url[2]
C19_Step ==
    /\ config_account_sid' = config_account_sid
    /\ config_auth_token' = config_auth_token
    /\ C19_ConfigActive' =
           IF config_subaccount_sid' \in {None, Some("")}
             THEN config_account_sid' ELSE config_subaccount_sid'[1]
    /\ C19_ConfigActive' # C19_ConfigActive => call'.name = "switch_subaccount"
    /\ call'.name = "switch_subaccount" =>
           config_subaccount_sid' = call'.args.subaccount_sid
    /\ call'.name = "refresh_client" => active_sid' = C19_ConfigActive'
    /\ call'.name # "refresh_client" => active_sid' = active_sid
    /\ call'.name \in C19_ScopedMethods => C19_Scope(call') = active_sid
\* C19: in every step of the program the main account identifier and the
\* secret stay as they are; the configuration's active identifier is the
\* subaccount when one is set (not None, not empty) and the main account
\* otherwise, and only switch_subaccount changes it; refresh_client leaves
\* the gateway's active identifier equal to the configuration's; every other
\* step, switch_subaccount included, leaves the gateway's active identifier
\* as it was, and the requests that name an account name that one.
C19_ActiveIdentifier == [][C19_Step]_vars
C19_Witness ==
    /\ call.name = "get_account_info"
    /\ config_subaccount_sid = Some(SubSid)
    /\ C19_ConfigActive = SubSid
    /\ active_sid = MainSid
    /\ C19_Scope(call) = MainSid
    /\ config_account_sid = MainSid

====
